---- MODULE Spec2Model ----
\* Model of cmd/varlink-go-interface-generator/main.go: the type translator
\* (writeType), the identifier sanitizer (sanitizeGoName) and the binding
\* emitter (generateTemplate).
\*
\* Text is a sequence of atoms.  Every identifier, the interface name, the
\* description and the "json.RawMessage" literal are spelled one character per
\* atom; every other string literal of the generator is one or more indivisible
\* atoms whose concatenation is the literal.  Substring search on text is then
\* contiguous-subsequence search on atoms.
EXTENDS Integers, Sequences, FiniteSets, TLC

VARIABLES pc, file, parsed, description, midl, pkgname, b, ret_string,
          wt_t, wt_ident, wt_wire, wt_plain

vars == <<pc, file, parsed, description, midl, pkgname, b, ret_string,
          wt_t, wt_ident, wt_wire, wt_plain>>

genVars == <<file, parsed, description, midl, pkgname, b, ret_string>>

wtVars == <<wt_t, wt_ident, wt_wire, wt_plain>>

-----------------------------------------------------------------------------
\* Text primitives (package strings / bytes.Buffer).

RECURSIVE Flatten(_)
\* Successive b.WriteString calls: the concatenation of the pieces.
Flatten(ss) ==
    IF ss = <<>> THEN <<>> ELSE Head(ss) \o Flatten(Tail(ss))

\* The positions at which pat occurs in text.
Matches(text, pat) ==
    { i \in 1..(Len(text) - Len(pat) + 1) :
        /\ pat = <<>> \/ text[i] = pat[1]
        /\ SubSeq(text, i, i + Len(pat) - 1) = pat }

\* strings.Contains
Contains(text, pat) ==
    \E i \in 1..(Len(text) - Len(pat) + 1) :
        /\ pat = <<>> \/ text[i] = pat[1]
        /\ SubSeq(text, i, i + Len(pat) - 1) = pat

\* strings.Count for a non-empty pattern that cannot overlap itself.
Occ(text, pat) ==
    Cardinality(Matches(text, pat))

\* strings.Index, 1-based; 0 when pat does not occur.
Index(text, pat) ==
    LET ms == Matches(text, pat)
    IN  IF ms = {} THEN 0 ELSE CHOOSE i \in ms : \A j \in ms : i <= j

\* strings.Replace(text, old, new, 1)
ReplaceFirst(text, old, new) ==
    LET i == Index(text, old)
    IN  IF i = 0 THEN text
        ELSE SubSeq(text, 1, i - 1) \o new \o SubSeq(text, i + Len(old), Len(text))

\* strings.Replace(text, ".", "", -1)
RemoveDots(text) ==
    SelectSeq(text, LAMBDA c : c # ".")

RECURSIVE TrimRight(_)
\* strings.TrimRight(text, "\n")
TrimRight(text) ==
    IF text # <<>> /\ text[Len(text)] = "\n"
    THEN TrimRight(SubSeq(text, 1, Len(text) - 1))
    ELSE text

Tabs(n) ==
    [i \in 1..n |-> "\t"]

Letters ==
    { "a","b","c","d","e","f","g","h","i","j","k","l","m",
      "n","o","p","q","r","s","t","u","v","w","x","y","z",
      "A","B","C","D","E","F","G","H","I","J","K","L","M",
      "N","O","P","Q","R","S","T","U","V","W","X","Y","Z" }

Digits ==
    { "0","1","2","3","4","5","6","7","8","9" }

ToUpper(c) ==
    CASE c = "a" -> "A"
      [] c = "b" -> "B"
      [] c = "c" -> "C"
      [] c = "d" -> "D"
      [] c = "e" -> "E"
      [] c = "f" -> "F"
      [] c = "g" -> "G"
      [] c = "h" -> "H"
      [] c = "i" -> "I"
      [] c = "j" -> "J"
      [] c = "k" -> "K"
      [] c = "l" -> "L"
      [] c = "m" -> "M"
      [] c = "n" -> "N"
      [] c = "o" -> "O"
      [] c = "p" -> "P"
      [] c = "q" -> "Q"
      [] c = "r" -> "R"
      [] c = "s" -> "S"
      [] c = "t" -> "T"
      [] c = "u" -> "U"
      [] c = "v" -> "V"
      [] c = "w" -> "W"
      [] c = "x" -> "X"
      [] c = "y" -> "Y"
      [] c = "z" -> "Z"
      [] OTHER -> c

\* strings.Title: upper-cases the first letter of every word, a word starting
\* at the beginning of the text or after a character that is neither a letter,
\* a digit nor an underscore.
Title(name) ==
    [i \in 1..Len(name) |->
        IF i = 1 \/ name[i - 1] \notin (Letters \cup Digits \cup {"_"})
        THEN ToUpper(name[i])
        ELSE name[i]]

-----------------------------------------------------------------------------
\* Reserved words and the sanitizer.

goKeywords ==
    { <<"b","r","e","a","k">>,
      <<"c","a","s","e">>,
      <<"c","h","a","n">>,
      <<"c","o","n","s","t">>,
      <<"c","o","n","t","i","n","u","e">>,
      <<"d","e","f","a","u","l","t">>,
      <<"d","e","f","e","r">>,
      <<"e","l","s","e">>,
      <<"f","a","l","l","t","h","r","o","u","g","h">>,
      <<"f","o","r">>,
      <<"f","u","n","c">>,
      <<"g","o">>,
      <<"g","o","t","o">>,
      <<"i","f">>,
      <<"i","m","p","o","r","t">>,
      <<"i","n","t","e","r","f","a","c","e">>,
      <<"m","a","p">>,
      <<"p","a","c","k","a","g","e">>,
      <<"r","a","n","g","e">>,
      <<"r","e","t","u","r","n">>,
      <<"s","e","l","e","c","t">>,
      <<"s","t","r","u","c","t">>,
      <<"s","w","i","t","c","h">>,
      <<"t","y","p","e">>,
      <<"v","a","r">> }

sanitizeGoName_unchanged(name) ==
    name

sanitizeGoName(name) ==
    IF name \notin goKeywords THEN name ELSE name \o <<"_">>

-----------------------------------------------------------------------------
\* idl.Type values: Kind, ElementType (absent: <<>>, present: <<type>>),
\* Alias (the referenced name) and Fields (a sequence of [Name, Type]).

Scalar(kind) ==
    [Kind |-> kind, ElementType |-> <<>>, Alias |-> <<>>, Fields |-> <<>>]

AliasRef(name) ==
    [Kind |-> "Alias", ElementType |-> <<>>, Alias |-> name, Fields |-> <<>>]

Nest(kind, elem) ==
    [Kind |-> kind, ElementType |-> <<elem>>, Alias |-> <<>>, Fields |-> <<>>]

Struct(fields) ==
    [Kind |-> "Struct", ElementType |-> <<>>, Alias |-> <<>>, Fields |-> fields]

Field(name, type) ==
    [Name |-> name, Type |-> type]

JsonRawMessage ==
    <<"j","s","o","n",".","R","a","w","M","e","s","s","a","g","e">>

\* The character U+0060, which a TLA+ string literal cannot hold.
BackQuote == "<backquote>"

TagOpen == <<" ", BackQuote, "json:\"">>

TagClose == <<"\"", BackQuote>>

OmitEmpty == ",omitempty"

WireTag_omitContainers(field) ==
    TagOpen \o field.Name
    \o (IF field.Type.Kind \in {"Maybe", "Array", "Map"} THEN <<OmitEmpty>> ELSE <<>>)
    \o TagClose

\* The wire tag of a struct member.
WireTag(field) ==
    TagOpen \o field.Name
    \o (IF field.Type.Kind = "Maybe" THEN <<OmitEmpty>> ELSE <<>>)
    \o TagClose

RECURSIVE writeType(_, _, _)

writeType_plainValueOptional(t, json, ident) ==
    CASE t.Kind = "Bool" -> <<"bool">>
      [] t.Kind = "Int" -> <<"int64">>
      [] t.Kind = "Float" -> <<"float64">>
      [] t.Kind \in {"String", "Enum"} -> <<"string">>
      [] t.Kind = "Object" -> JsonRawMessage
      [] t.Kind = "Array" -> <<"[]">> \o writeType(t.ElementType[1], json, ident)
      [] t.Kind = "Map" -> <<"map[string]">> \o writeType(t.ElementType[1], json, ident)
      [] t.Kind = "Maybe" ->
            (IF json THEN <<"*">> ELSE <<>>) \o writeType(t.ElementType[1], json, ident)
      [] t.Kind = "Alias" -> t.Alias
      [] t.Kind = "Struct" ->
            IF Len(t.Fields) = 0 THEN <<"struct{}">>
            ELSE <<"struct {\n">>
                 \o Flatten([i \in 1..Len(t.Fields) |->
                        Tabs(ident + 1)
                        \o Title(t.Fields[i].Name) \o <<" ">>
                        \o writeType(t.Fields[i].Type, json, ident + 1)
                        \o (IF json THEN WireTag(t.Fields[i]) ELSE <<>>)
                        \o <<"\n">>])
                 \o Tabs(ident)
                 \o <<"}">>
      [] OTHER -> <<>>

\* writeType: the rendering appended to the buffer for type t.
writeType(t, json, ident) ==
    CASE t.Kind = "Bool" -> <<"bool">>
      [] t.Kind = "Int" -> <<"int64">>
      [] t.Kind = "Float" -> <<"float64">>
      [] t.Kind \in {"String", "Enum"} -> <<"string">>
      [] t.Kind = "Object" -> JsonRawMessage
      [] t.Kind = "Array" -> <<"[]">> \o writeType(t.ElementType[1], json, ident)
      [] t.Kind = "Map" -> <<"map[string]">> \o writeType(t.ElementType[1], json, ident)
      [] t.Kind = "Maybe" -> <<"*">> \o writeType(t.ElementType[1], json, ident)
      [] t.Kind = "Alias" -> t.Alias
      [] t.Kind = "Struct" ->
            IF Len(t.Fields) = 0 THEN <<"struct{}">>
            ELSE <<"struct {\n">>
                 \o Flatten([i \in 1..Len(t.Fields) |->
                        Tabs(ident + 1)
                        \o Title(t.Fields[i].Name) \o <<" ">>
                        \o writeType(t.Fields[i].Type, json, ident + 1)
                        \o (IF json THEN WireTag(t.Fields[i]) ELSE <<>>)
                        \o <<"\n">>])
                 \o Tabs(ident)
                 \o <<"}">>
      [] OTHER -> <<>>

-----------------------------------------------------------------------------
\* The type translator on its own: inputs drawn from a bounded type universe.

MaxDepth == 3

go == <<"g","o">>

x == <<"x">>

ScalarTypes ==
    { Scalar(k) : k \in {"Bool", "Int", "Float", "String", "Enum", "Object"} }
    \cup { AliasRef(<<"T">>) }

RECURSIVE TypesOf(_)
\* Types nested at most d levels deep.
TypesOf(d) ==
    IF d = 0 THEN ScalarTypes
    ELSE LET S == TypesOf(d - 1)
         IN  ScalarTypes
             \cup { Nest(k, e) : k \in {"Array", "Map", "Maybe"}, e \in S }
             \cup { Struct(<<>>) }
             \cup { Struct(<<Field(n, e)>>) : n \in {go, x}, e \in S }
             \cup { Struct(<<Field(go, e), Field(x, s)>>) :
                        e \in S, s \in {Scalar("Int"), Nest("Maybe", Scalar("String"))} }

\* The indentation levels generateTemplate passes to writeType.
Idents == {0, 1, 2}

NoModel ==
    [Name |-> <<>>, Description |-> <<>>, Aliases |-> <<>>, Methods |-> <<>>, Errors |-> <<>>]

InitWT ==
    /\ pc = "wt_input"
    /\ wt_t \in TypesOf(MaxDepth)
    /\ wt_ident \in Idents
    /\ wt_wire = <<>>
    /\ wt_plain = <<>>
    /\ file = <<>>
    /\ parsed = [Valid |-> FALSE, Name |-> <<>>, Aliases |-> <<>>, Methods |-> <<>>, Errors |-> <<>>]
    /\ description = <<>>
    /\ midl = NoModel
    /\ pkgname = <<>>
    /\ b = <<>>
    /\ ret_string = <<>>

\* writeType(&b, t, true, ident) on an empty buffer.
WriteTypeWire ==
    /\ pc \in {"wt_input", "wt_plain"}
    /\ wt_wire' = writeType(wt_t, TRUE, wt_ident)
    /\ pc' = IF pc = "wt_input" THEN "wt_wire" ELSE "wt_both"
    /\ UNCHANGED <<wt_t, wt_ident, wt_plain>>
    /\ UNCHANGED genVars

\* writeType(&b, t, false, ident) on an empty buffer.
WriteTypePlain ==
    /\ pc \in {"wt_input", "wt_wire"}
    /\ wt_plain' = writeType(wt_t, FALSE, wt_ident)
    /\ pc' = IF pc = "wt_input" THEN "wt_plain" ELSE "wt_both"
    /\ UNCHANGED <<wt_t, wt_ident, wt_wire>>
    /\ UNCHANGED genVars

NextWT ==
    \/ WriteTypeWire
    \/ WriteTypePlain

SpecWT == InitWT /\ [][NextWT]_vars

-----------------------------------------------------------------------------
\* Reading a rendering back.

\* What stands after the first occurrence of pat; nothing when pat is absent.
After(text, pat) ==
    LET i == Index(text, pat)
    IN  IF i = 0 THEN <<>> ELSE SubSeq(text, i + Len(pat), Len(text))

\* What stands before the first occurrence of pat; everything when pat is absent.
Before(text, pat) ==
    LET i == Index(text, pat)
    IN  IF i = 0 THEN text ELSE SubSeq(text, 1, i - 1)

\* What stands between the first opener and the closer that follows it.
Between(text, open, close) ==
    Before(After(text, open), close)

RECURSIVE Enclosed(_, _, _)
\* What stands between each opener and the closer that follows it, in textual
\* order.
Enclosed(text, open, close) ==
    LET i == Index(text, open)
    IN  IF i = 0 THEN <<>>
        ELSE LET rest == SubSeq(text, i + Len(open), Len(text))
                 j == Index(rest, close)
             IN  IF j = 0 THEN <<rest>>
                 ELSE <<SubSeq(rest, 1, j - 1)>>
                      \o Enclosed(SubSeq(rest, j + Len(close), Len(rest)), open, close)

\* The contents of the wire tags of a rendering, in textual order.
TagsOf(text) ==
    Enclosed(text, TagOpen, TagClose)

RECURSIVE StripTags(_)
\* A rendering with every wire tag (opener through closer) removed.
StripTags(text) ==
    LET i == Index(text, TagOpen)
    IN  IF i = 0 THEN text
        ELSE LET rest == SubSeq(text, i + Len(TagOpen), Len(text))
                 j == Index(rest, TagClose)
             IN  IF j = 0 THEN SubSeq(text, 1, i - 1)
                 ELSE SubSeq(text, 1, i - 1)
                      \o StripTags(SubSeq(rest, j + Len(TagClose), Len(rest)))

RECURSIVE ExpectedTags(_)
\* The tag each field of t must carry, at every nesting depth, in the order the
\* members close: the field's original name, followed by the omit-when-absent
\* marker exactly when the field's own kind is Maybe.
ExpectedTags(t) ==
    CASE t.Kind \in {"Array", "Map", "Maybe"} -> ExpectedTags(t.ElementType[1])
      [] t.Kind = "Struct" ->
            Flatten([i \in 1..Len(t.Fields) |->
                ExpectedTags(t.Fields[i].Type)
                \o << t.Fields[i].Name
                      \o (IF t.Fields[i].Type.Kind = "Maybe" THEN <<OmitEmpty>> ELSE <<>>) >>])
      [] OTHER -> <<>>

WireRendered == pc \in {"wt_wire", "wt_both"}

PlainRendered == pc \in {"wt_plain", "wt_both"}

\* C6: in a wire-tagged rendering every field, at any nesting depth, is tagged
\* with its original name, followed by ",omitempty" if and only if the field's
\* own kind is Maybe; a plain rendering holds no tag at all.
C6_OmitEmptyIffMaybe ==
    /\ WireRendered => TagsOf(wt_wire) = ExpectedTags(wt_t)
    /\ PlainRendered => /\ ~Contains(wt_plain, TagOpen)
                        /\ ~Contains(wt_plain, <<OmitEmpty>>)
                        /\ ~Contains(wt_plain, <<BackQuote>>)

\* C6 witness: a struct with an Array-of-Maybe field (not omittable) next to a
\* Maybe field (omittable) has been rendered in both modes.
C6_Witness ==
    /\ pc = "wt_both"
    /\ wt_t = Struct(<<Field(go, Nest("Array", Nest("Maybe", Scalar("Int")))),
                       Field(x, Nest("Maybe", Scalar("String")))>>)
    /\ TagsOf(wt_wire) = <<go, x \o <<OmitEmpty>> >>

\* C7: the wire-tagged and the plain rendering of one type at one indentation
\* level are the same text once the wire tags are removed.
C7_SameShapeModuloTags ==
    pc = "wt_both" => StripTags(wt_wire) = wt_plain

\* C7 witness: a struct nesting an array of structs, whose two renderings
\* differ, has been rendered in both modes.
C7_Witness ==
    /\ pc = "wt_both"
    /\ wt_t.Kind = "Struct"
    /\ Len(wt_t.Fields) = 2
    /\ wt_t.Fields[1].Type.Kind = "Array"
    /\ wt_t.Fields[1].Type.ElementType[1].Kind = "Struct"
    /\ Len(wt_t.Fields[1].Type.ElementType[1].Fields) = 1
    /\ wt_t.Fields[2].Type.Kind = "Maybe"
    /\ wt_wire # wt_plain
    /\ Len(TagsOf(wt_wire)) = 3

-----------------------------------------------------------------------------
\* generateTemplate, section by section.  m is an idl.Method [Name, In, Out],
\* e an idl.Error [Name, Type], a an idl.Alias [Name, Type]; In, Out and Type
\* are Struct types.

\* idl.New: the parser's result for a description.  The parser keeps the text
\* it was given as the model's description; p is what it reads out of it.
idlNew(text, p) ==
    [Name |-> p.Name, Description |-> text, Aliases |-> p.Aliases,
     Methods |-> p.Methods, Errors |-> p.Errors]

Header ==
    <<"// Generated with github.com/varlink/go/cmd/varlink-go-interface-generator\n",
      "package ">> \o pkgname \o <<"\n\n", "@IMPORTS@", "\n\n">>

TypeDeclarations ==
    <<"// Type declarations\n">>
    \o Flatten([i \in 1..Len(midl.Aliases) |->
           <<"type ">> \o midl.Aliases[i].Name \o <<" ">>
           \o writeType(midl.Aliases[i].Type, TRUE, 0)
           \o <<"\n\n">>])

ClientCall_directAssign(m) ==
    <<"func ">> \o m.Name \o <<"(c_ *varlink.Connection, more_ bool, oneway_ bool">>
    \o Flatten([i \in 1..Len(m.In.Fields) |->
           <<", ">> \o sanitizeGoName(m.In.Fields[i].Name) \o <<" ">>
           \o writeType(m.In.Fields[i].Type, FALSE, 1)])
    \o <<") error {\n">>
    \o (IF Len(m.In.Fields) > 0
        THEN <<"\tvar in ">> \o writeType(m.In, TRUE, 1) \o <<"\n">>
             \o Flatten([i \in 1..Len(m.In.Fields) |->
                    IF m.In.Fields[i].Type.Kind \in {"Struct", "Map"}
                    THEN <<"\tin.">> \o Title(m.In.Fields[i].Name) \o <<" = ">>
                         \o writeType(m.In.Fields[i].Type, TRUE, 1)
                         \o <<"(">> \o sanitizeGoName(m.In.Fields[i].Name) \o <<")\n">>
                    ELSE <<"\tin.">> \o Title(m.In.Fields[i].Name) \o <<" = ">>
                         \o sanitizeGoName(m.In.Fields[i].Name) \o <<"\n">>])
             \o <<"\treturn c_.Send(\"">> \o midl.Name \o <<".">> \o m.Name
             \o <<"\", ", "in", ", more_, oneway_)\n", "}\n\n">>
        ELSE <<"\treturn c_.Send(\"">> \o midl.Name \o <<".">> \o m.Name
             \o <<"\", ", "nil", ", more_, oneway_)\n", "}\n\n">>)

ClientCall_emptyStruct(m) ==
    <<"func ">> \o m.Name \o <<"(c_ *varlink.Connection, more_ bool, oneway_ bool">>
    \o Flatten([i \in 1..Len(m.In.Fields) |->
           <<", ">> \o sanitizeGoName(m.In.Fields[i].Name) \o <<" ">>
           \o writeType(m.In.Fields[i].Type, FALSE, 1)])
    \o <<") error {\n">>
    \o <<"\tvar in ">> \o writeType(m.In, TRUE, 1) \o <<"\n">>
    \o Flatten([i \in 1..Len(m.In.Fields) |->
           IF m.In.Fields[i].Type.Kind \in {"Struct", "Array", "Map"}
           THEN <<"\tin.">> \o Title(m.In.Fields[i].Name) \o <<" = ">>
                \o writeType(m.In.Fields[i].Type, TRUE, 1)
                \o <<"(">> \o sanitizeGoName(m.In.Fields[i].Name) \o <<")\n">>
           ELSE <<"\tin.">> \o Title(m.In.Fields[i].Name) \o <<" = ">>
                \o sanitizeGoName(m.In.Fields[i].Name) \o <<"\n">>])
    \o <<"\treturn c_.Send(\"">> \o midl.Name \o <<".">> \o m.Name
    \o <<"\", ", "in", ", more_, oneway_)\n", "}\n\n">>

\* The client call function of one method.
ClientCall(m) ==
    <<"func ">> \o m.Name \o <<"(c_ *varlink.Connection, more_ bool, oneway_ bool">>
    \o Flatten([i \in 1..Len(m.In.Fields) |->
           <<", ">> \o sanitizeGoName(m.In.Fields[i].Name) \o <<" ">>
           \o writeType(m.In.Fields[i].Type, FALSE, 1)])
    \o <<") error {\n">>
    \o (IF Len(m.In.Fields) > 0
        THEN <<"\tvar in ">> \o writeType(m.In, TRUE, 1) \o <<"\n">>
             \o Flatten([i \in 1..Len(m.In.Fields) |->
                    IF m.In.Fields[i].Type.Kind \in {"Struct", "Array", "Map"}
                    THEN <<"\tin.">> \o Title(m.In.Fields[i].Name) \o <<" = ">>
                         \o writeType(m.In.Fields[i].Type, TRUE, 1)
                         \o <<"(">> \o sanitizeGoName(m.In.Fields[i].Name) \o <<")\n">>
                    ELSE <<"\tin.">> \o Title(m.In.Fields[i].Name) \o <<" = ">>
                         \o sanitizeGoName(m.In.Fields[i].Name) \o <<"\n">>])
             \o <<"\treturn c_.Send(\"">> \o midl.Name \o <<".">> \o m.Name
             \o <<"\", ", "in", ", more_, oneway_)\n", "}\n\n">>
        ELSE <<"\treturn c_.Send(\"">> \o midl.Name \o <<".">> \o m.Name
             \o <<"\", ", "nil", ", more_, oneway_)\n", "}\n\n">>)

\* The reply reader of one method.
ReadReply(m) ==
    <<"func Read">> \o m.Name \o <<"_(c *varlink.Connection">>
    \o Flatten([i \in 1..Len(m.Out.Fields) |->
           <<", ">> \o sanitizeGoName(m.Out.Fields[i].Name) \o <<" *">>
           \o writeType(m.Out.Fields[i].Type, FALSE, 1)])
    \o <<") (bool, error) {\n">>
    \o (IF Len(m.Out.Fields) > 0
        THEN <<"\tvar out ">> \o writeType(m.Out, TRUE, 1) \o <<"\n">>
             \o <<"\tcontinues_, err := c.Receive(", "&out", ")\n">>
        ELSE <<"\tcontinues_, err := c.Receive(", "nil", ")\n">>)
    \o <<"\tif err != nil {\n\t\treturn false, err\n\t}\n">>
    \o Flatten([i \in 1..Len(m.Out.Fields) |->
           <<"\tif ">> \o sanitizeGoName(m.Out.Fields[i].Name) \o <<" != nil {\n">>
           \o (IF m.Out.Fields[i].Type.Kind \in {"Struct", "Array", "Map"}
               THEN <<"\t\t*">> \o sanitizeGoName(m.Out.Fields[i].Name) \o <<" = ">>
                    \o writeType(m.Out.Fields[i].Type, FALSE, 2)
                    \o <<" (out.">> \o Title(m.Out.Fields[i].Name) \o <<")\n">>
               ELSE <<"\t\t*">> \o sanitizeGoName(m.Out.Fields[i].Name)
                    \o <<" = out.">> \o Title(m.Out.Fields[i].Name) \o <<"\n">>)
           \o <<"\t}\n">>])
    \o <<"\treturn continues_, nil\n", "}\n\n">>

ClientMethods ==
    <<"// Client method calls and reply readers\n">>
    \o Flatten([i \in 1..Len(midl.Methods) |->
           ClientCall(midl.Methods[i]) \o ReadReply(midl.Methods[i])])

\* The server interface declaration and the call wrapper type.
ServiceInterface ==
    <<"// Service interface with all methods\n",
      "type ">> \o pkgname \o <<"Interface interface {\n">>
    \o Flatten([i \in 1..Len(midl.Methods) |->
           <<"\t">> \o midl.Methods[i].Name \o <<"(c VarlinkCall">>
           \o Flatten([j \in 1..Len(midl.Methods[i].In.Fields) |->
                  <<", ">> \o sanitizeGoName(midl.Methods[i].In.Fields[j].Name) \o <<" ">>
                  \o writeType(midl.Methods[i].In.Fields[j].Type, FALSE, 1)])
           \o <<") error\n">>])
    \o <<"}\n\n">>
    \o <<"// Service object with all methods\n",
         "type VarlinkCall struct{ varlink.Call }\n\n">>

ErrorReply_bareName(e) ==
    <<"func (c *VarlinkCall) Reply">> \o e.Name \o <<"(">>
    \o Flatten([i \in 1..Len(e.Type.Fields) |->
           (IF i > 1 THEN <<", ">> ELSE <<>>)
           \o sanitizeGoName(e.Type.Fields[i].Name) \o <<" ">>
           \o writeType(e.Type.Fields[i].Type, FALSE, 1)])
    \o <<") error {\n">>
    \o (IF Len(e.Type.Fields) > 0
        THEN <<"\tvar out ">> \o writeType(e.Type, TRUE, 1) \o <<"\n">>
             \o Flatten([i \in 1..Len(e.Type.Fields) |->
                    IF e.Type.Fields[i].Type.Kind \in {"Struct", "Array", "Map"}
                    THEN <<"\tout.">> \o Title(e.Type.Fields[i].Name) \o <<" = ">>
                         \o writeType(e.Type.Fields[i].Type, TRUE, 1)
                         \o <<"(">> \o sanitizeGoName(e.Type.Fields[i].Name) \o <<")\n">>
                    ELSE <<"\tout.">> \o Title(e.Type.Fields[i].Name) \o <<" = ">>
                         \o sanitizeGoName(e.Type.Fields[i].Name) \o <<"\n">>])
             \o <<"\treturn c.ReplyError(\"">> \o e.Name
             \o <<"\", ", "&out", ")\n">>
        ELSE <<"\treturn c.ReplyError(\"">> \o e.Name
             \o <<"\", ", "nil", ")\n">>)
    \o <<"}\n\n">>

\* The error reply method of one declared error.
ErrorReply(e) ==
    <<"func (c *VarlinkCall) Reply">> \o e.Name \o <<"(">>
    \o Flatten([i \in 1..Len(e.Type.Fields) |->
           (IF i > 1 THEN <<", ">> ELSE <<>>)
           \o sanitizeGoName(e.Type.Fields[i].Name) \o <<" ">>
           \o writeType(e.Type.Fields[i].Type, FALSE, 1)])
    \o <<") error {\n">>
    \o (IF Len(e.Type.Fields) > 0
        THEN <<"\tvar out ">> \o writeType(e.Type, TRUE, 1) \o <<"\n">>
             \o Flatten([i \in 1..Len(e.Type.Fields) |->
                    IF e.Type.Fields[i].Type.Kind \in {"Struct", "Array", "Map"}
                    THEN <<"\tout.">> \o Title(e.Type.Fields[i].Name) \o <<" = ">>
                         \o writeType(e.Type.Fields[i].Type, TRUE, 1)
                         \o <<"(">> \o sanitizeGoName(e.Type.Fields[i].Name) \o <<")\n">>
                    ELSE <<"\tout.">> \o Title(e.Type.Fields[i].Name) \o <<" = ">>
                         \o sanitizeGoName(e.Type.Fields[i].Name) \o <<"\n">>])
             \o <<"\treturn c.ReplyError(\"">> \o midl.Name \o <<".">> \o e.Name
             \o <<"\", ", "&out", ")\n">>
        ELSE <<"\treturn c.ReplyError(\"">> \o midl.Name \o <<".">> \o e.Name
             \o <<"\", ", "nil", ")\n">>)
    \o <<"}\n\n">>

ErrorReplies ==
    <<"// Reply methods for all varlink errors\n">>
    \o Flatten([i \in 1..Len(midl.Errors) |-> ErrorReply(midl.Errors[i])])

\* The reply method of one method.
MethodReply(m) ==
    <<"func (c *VarlinkCall) Reply">> \o m.Name \o <<"(">>
    \o Flatten([i \in 1..Len(m.Out.Fields) |->
           (IF i > 1 THEN <<", ">> ELSE <<>>)
           \o sanitizeGoName(m.Out.Fields[i].Name) \o <<" ">>
           \o writeType(m.Out.Fields[i].Type, FALSE, 1)])
    \o <<") error {\n">>
    \o (IF Len(m.Out.Fields) > 0
        THEN <<"\tvar out ">> \o writeType(m.Out, TRUE, 1) \o <<"\n">>
             \o Flatten([i \in 1..Len(m.Out.Fields) |->
                    IF m.Out.Fields[i].Type.Kind \in {"Struct", "Array", "Map"}
                    THEN <<"\tout.">> \o Title(m.Out.Fields[i].Name) \o <<" = ">>
                         \o writeType(m.Out.Fields[i].Type, TRUE, 1)
                         \o <<"(">> \o sanitizeGoName(m.Out.Fields[i].Name) \o <<")\n">>
                    ELSE <<"\tout.">> \o Title(m.Out.Fields[i].Name) \o <<" = ">>
                         \o sanitizeGoName(m.Out.Fields[i].Name) \o <<"\n">>])
             \o <<"\treturn c.Reply(", "&out", ")\n">>
        ELSE <<"\treturn c.Reply(", "nil", ")\n">>)
    \o <<"}\n\n">>

MethodReplies ==
    <<"// Reply methods for all varlink methods\n">>
    \o Flatten([i \in 1..Len(midl.Methods) |-> MethodReply(midl.Methods[i])])

\* The default "not implemented" stubs.
Stubs ==
    <<"// Dummy methods for all varlink methods\n">>
    \o Flatten([i \in 1..Len(midl.Methods) |->
           <<"func (s *VarlinkInterface) ">> \o midl.Methods[i].Name \o <<"(c VarlinkCall">>
           \o Flatten([j \in 1..Len(midl.Methods[i].In.Fields) |->
                  <<", ">> \o sanitizeGoName(midl.Methods[i].In.Fields[j].Name) \o <<" ">>
                  \o writeType(midl.Methods[i].In.Fields[j].Type, FALSE, 1)])
           \o <<") error {\n", "\treturn c.ReplyMethodNotImplemented(\"">>
           \o midl.Methods[i].Name \o <<"\")\n", "}\n\n">>])

DispatchCase_qualifiedLabel(m) ==
    <<"\tcase \"">> \o midl.Name \o <<".">> \o m.Name \o <<"\":\n">>
    \o (IF Len(m.In.Fields) > 0
        THEN <<"\t\tvar in ">> \o writeType(m.In, TRUE, 2) \o <<"\n">>
             \o <<"\t\terr := call.GetParameters(", "&in", ")\n",
                  "\t\tif err != nil {\n\t\t\treturn call.ReplyInvalidParameter(\"parameters\")\n\t\t}\n">>
             \o <<"\t\treturn s.">> \o pkgname \o <<"Interface.">> \o m.Name
             \o <<"(VarlinkCall{call}">>
             \o (IF Len(m.In.Fields) > 0
                 THEN Flatten([i \in 1..Len(m.In.Fields) |->
                          IF m.In.Fields[i].Type.Kind \in {"Struct", "Array", "Map"}
                          THEN <<", ">> \o writeType(m.In.Fields[i].Type, FALSE, 2)
                               \o <<"(in.">> \o Title(m.In.Fields[i].Name) \o <<")">>
                          ELSE <<", in.">> \o Title(m.In.Fields[i].Name)])
                 ELSE <<>>)
             \o <<")\n">>
        ELSE <<"\t\treturn s.">> \o pkgname \o <<"Interface.">> \o m.Name
             \o <<"(VarlinkCall{call}", ")\n">>)
    \o <<"\n">>

\* One branch of the dispatcher.
DispatchCase(m) ==
    <<"\tcase \"">> \o m.Name \o <<"\":\n">>
    \o (IF Len(m.In.Fields) > 0
        THEN <<"\t\tvar in ">> \o writeType(m.In, TRUE, 2) \o <<"\n">>
             \o <<"\t\terr := call.GetParameters(", "&in", ")\n",
                  "\t\tif err != nil {\n\t\t\treturn call.ReplyInvalidParameter(\"parameters\")\n\t\t}\n">>
             \o <<"\t\treturn s.">> \o pkgname \o <<"Interface.">> \o m.Name
             \o <<"(VarlinkCall{call}">>
             \o (IF Len(m.In.Fields) > 0
                 THEN Flatten([i \in 1..Len(m.In.Fields) |->
                          IF m.In.Fields[i].Type.Kind \in {"Struct", "Array", "Map"}
                          THEN <<", ">> \o writeType(m.In.Fields[i].Type, FALSE, 2)
                               \o <<"(in.">> \o Title(m.In.Fields[i].Name) \o <<")">>
                          ELSE <<", in.">> \o Title(m.In.Fields[i].Name)])
                 ELSE <<>>)
             \o <<")\n">>
        ELSE <<"\t\treturn s.">> \o pkgname \o <<"Interface.">> \o m.Name
             \o <<"(VarlinkCall{call}", ")\n">>)
    \o <<"\n">>

Dispatcher ==
    <<"// Method call dispatcher\n",
      "func (s *VarlinkInterface) VarlinkDispatch(call varlink.Call, methodname string) error {\n",
      "\tswitch methodname {\n">>
    \o Flatten([i \in 1..Len(midl.Methods) |-> DispatchCase(midl.Methods[i])])
    \o <<"\tdefault:\n",
         "\t\treturn call.ReplyMethodNotFound(methodname)\n",
         "\t}\n", "}\n\n">>

Accessors_verbatim ==
    <<"// Varlink interface name\n",
      "func (s *VarlinkInterface) VarlinkGetName() string {\n",
      "\treturn ", BackQuote>> \o midl.Name \o <<BackQuote, "\n", "}\n\n">>
    \o <<"// Varlink interface description\n",
         "func (s *VarlinkInterface) VarlinkGetDescription() string {\n",
         "\treturn ", BackQuote>> \o midl.Description \o <<BackQuote, "\n}\n\n">>
    \o <<"// Service interface\n",
         "type VarlinkInterface struct {\n", "\t">> \o pkgname \o <<"Interface\n", "}\n\n">>
    \o <<"func VarlinkNew(m ">> \o pkgname \o <<"Interface) *VarlinkInterface {\n",
         "\treturn &VarlinkInterface{m}\n", "}\n">>

\* The identity accessors, the adapter type and its constructor.
Accessors ==
    <<"// Varlink interface name\n",
      "func (s *VarlinkInterface) VarlinkGetName() string {\n",
      "\treturn ", BackQuote>> \o midl.Name \o <<BackQuote, "\n", "}\n\n">>
    \o <<"// Varlink interface description\n",
         "func (s *VarlinkInterface) VarlinkGetDescription() string {\n",
         "\treturn ", BackQuote>> \o midl.Description \o <<"\n", BackQuote, "\n}\n\n">>
    \o <<"// Service interface\n",
         "type VarlinkInterface struct {\n", "\t">> \o pkgname \o <<"Interface\n", "}\n\n">>
    \o <<"func VarlinkNew(m ">> \o pkgname \o <<"Interface) *VarlinkInterface {\n",
         "\treturn &VarlinkInterface{m}\n", "}\n">>

ImportBoth ==
    <<"import (\n\t\"github.com/varlink/go/varlink\"\n\t\"", "encoding/json", "\"\n)">>

ImportVarlink ==
    <<"import \"github.com/varlink/go/varlink\"">>

\* The import clause substituted for the placeholder.
ResolvedImports(text) ==
    IF Contains(text, JsonRawMessage)
    THEN ReplaceFirst(text, <<"@IMPORTS@">>, ImportBoth)
    ELSE ReplaceFirst(text, <<"@IMPORTS@">>, ImportVarlink)

-----------------------------------------------------------------------------
\* Inputs of the generator: descriptions and the models the parser reads out
\* of them.

MaxNewlines == 2

MaxMethods == 2

MaxErrors == 1

InterfaceNames ==
    { <<"a",".","b">>, <<"a",".","j","s","o","n">> }

\* The name of the i-th method.
MethodName(i) ==
    CASE i = 1 -> <<"P","i","n","g">>
      [] i = 2 -> <<"R","a","w","M","e","s","s","a","g","e">>
      [] OTHER -> <<"M">> \o [j \in 1..(i - 2) |-> "x"]

\* The name of the i-th error.
ErrorName(i) ==
    <<"E">> \o [j \in 1..i |-> "r"]

in == <<"i","n">>

StructOfGo == Struct(<<Field(go, Nest("Maybe", Scalar("Int")))>>)

\* The field types a method or an error is given: every kind, an array of
\* structs and an Object below an array.
FieldTypes ==
    ScalarTypes
    \cup { Nest("Array", StructOfGo), Nest("Map", Scalar("String")),
           Nest("Maybe", Scalar("String")), StructOfGo,
           Nest("Array", Scalar("Object")) }

\* The field lists a method or an error is given.
FieldLists ==
    { <<>> }
    \cup { <<Field(x, ty)>> : ty \in FieldTypes }
    \cup { <<Field(n, Scalar("String"))>> : n \in {go, in, <<"c">>, <<"C">>, <<"o","u","t">>} }
    \cup { <<Field(go, Nest("Array", StructOfGo))>>,
           <<Field(<<"c">>, Scalar("String")), Field(<<"C">>, Scalar("Int"))>>,
           <<Field(go, Nest("Map", Scalar("String"))), Field(x, Nest("Maybe", Scalar("Int")))>> }

OtherFieldLists ==
    { <<>>, <<Field(x, Scalar("String"))>> }

AliasLists ==
    { <<>>,
      <<[Name |-> <<"T">>, Type |-> StructOfGo]>>,
      <<[Name |-> <<"T">>, Type |-> Scalar("Object")]>> }

\* The text of a description of interface name followed by k empty lines; the
\* declarations are one atom.
DescriptionText(name, k) ==
    <<"interface ">> \o name \o <<"\n", "<members>">> \o [j \in 1..k |-> "\n"]

\* The model with n methods and k errors built from the field lists fa and fb:
\* odd methods take fa and return fb, even methods take fb and return fa; odd
\* errors carry fa, even errors carry fb.
ModelOf(name, aliases, fa, fb, n, k) ==
    [Valid |-> TRUE,
     Name |-> name,
     Aliases |-> aliases,
     Methods |-> [i \in 1..n |->
                    [Name |-> MethodName(i),
                     In |-> Struct(IF i % 2 = 1 THEN fa ELSE fb),
                     Out |-> Struct(IF i % 2 = 1 THEN fb ELSE fa)]],
     Errors |-> [i \in 1..k |->
                    [Name |-> ErrorName(i),
                     Type |-> Struct(IF i % 2 = 1 THEN fa ELSE fb)]]]

Unparsable ==
    [Valid |-> FALSE, Name |-> <<>>, Aliases |-> <<>>, Methods |-> <<>>, Errors |-> <<>>]

UsesAlias(fields) ==
    \E i \in 1..Len(fields) : fields[i].Type.Kind = "Alias"

Init ==
    /\ pc = "start"
    /\ \/ \E name \in InterfaceNames, nl \in 0..MaxNewlines, aliases \in AliasLists,
             fa \in FieldLists, fb \in OtherFieldLists,
             n \in 0..MaxMethods, k \in 0..MaxErrors :
            /\ UsesAlias(fa) => aliases # <<>>
            /\ file = DescriptionText(name, nl)
            /\ parsed = ModelOf(name, aliases, fa, fb, n, k)
       \/ /\ file \in { <<"<garbage>">> \o [j \in 1..nl |-> "\n"] : nl \in 0..MaxNewlines }
          /\ parsed = Unparsable
    /\ description = <<>>
    /\ midl = NoModel
    /\ pkgname = <<>>
    /\ b = <<>>
    /\ ret_string = <<>>
    /\ wt_t = Scalar("Bool")
    /\ wt_ident = 0
    /\ wt_wire = <<>>
    /\ wt_plain = <<>>

\* generateTemplate, lines 112-119: trim, parse, derive the package name.
ParseDescription ==
    /\ pc = "start"
    /\ parsed.Valid
    /\ description' = TrimRight(file)
    /\ midl' = idlNew(description', parsed)
    /\ pkgname' = RemoveDots(midl'.Name)
    /\ pc' = "header"
    /\ UNCHANGED <<file, parsed, b, ret_string>>
    /\ UNCHANGED wtVars

\* generateTemplate, lines 114-117: the parser rejects the description.
ParseError ==
    /\ pc = "start"
    /\ ~parsed.Valid
    /\ description' = TrimRight(file)
    /\ pc' = "error"
    /\ UNCHANGED <<file, parsed, midl, pkgname, b, ret_string>>
    /\ UNCHANGED wtVars

\* One section appended to the buffer.
Emit(from, text, to) ==
    /\ pc = from
    /\ b' = b \o text
    /\ pc' = to
    /\ UNCHANGED <<file, parsed, description, midl, pkgname, ret_string>>
    /\ UNCHANGED wtVars

WriteHeader == Emit("header", Header, "aliases")

WriteTypeDeclarations == Emit("aliases", TypeDeclarations, "client")

WriteClientMethods == Emit("client", ClientMethods, "interface")

WriteServiceInterface == Emit("interface", ServiceInterface, "errors")

WriteErrorReplies == Emit("errors", ErrorReplies, "replies")

WriteMethodReplies == Emit("replies", MethodReplies, "stubs")

WriteStubs == Emit("stubs", Stubs, "dispatch")

WriteDispatcher == Emit("dispatch", Dispatcher, "accessors")

WriteAccessors == Emit("accessors", Accessors, "imports")

\* generateTemplate, lines 346-359: the import clause is resolved and the text
\* handed to the formatter, which changes its layout only.
ResolveImports ==
    /\ pc = "imports"
    /\ ret_string' = ResolvedImports(b)
    /\ pc' = "done"
    /\ UNCHANGED <<file, parsed, description, midl, pkgname, b>>
    /\ UNCHANGED wtVars

Next ==
    \/ ParseDescription
    \/ ParseError
    \/ WriteHeader
    \/ WriteTypeDeclarations
    \/ WriteClientMethods
    \/ WriteServiceInterface
    \/ WriteErrorReplies
    \/ WriteMethodReplies
    \/ WriteStubs
    \/ WriteDispatcher
    \/ WriteAccessors
    \/ ResolveImports

Spec == Init /\ [][Next]_vars

-----------------------------------------------------------------------------
\* Reading the generated unit back.

Done == pc = "done"

Methods == midl.Methods

Errors == midl.Errors

FunctionEnd == <<"}\n\n">>

\* The generated function that starts with header, up to its closing brace.
FunctionText(header) ==
    Before(After(ret_string, header), FunctionEnd)

ClientCallHeader(m) ==
    <<"func ">> \o m.Name \o <<"(c_ *varlink.Connection, more_ bool, oneway_ bool">>

ReadReplyHeader(m) ==
    <<"func Read">> \o m.Name \o <<"_(c *varlink.Connection">>

ReplyHeader(name) ==
    <<"func (c *VarlinkCall) Reply">> \o name \o <<"(">>

StubHeader(m) ==
    <<"func (s *VarlinkInterface) ">> \o m.Name \o <<"(c VarlinkCall">>

\* The method's line of the server interface declaration.
InterfaceLine(m) ==
    Before(After(After(ret_string, <<"Interface interface {\n">>),
                 <<"\t">> \o m.Name \o <<"(c VarlinkCall">>),
           <<") error\n">>)

\* The dispatcher function.
DispatcherText ==
    Between(ret_string, <<"// Method call dispatcher\n">>, <<"// Varlink interface name\n">>)

CaseOpen == <<"\tcase \"">>

CaseClose == <<"\":\n">>

DefaultLabel == <<"\tdefault:\n">>

\* The statements of the dispatcher branch labelled with the method's name.
Branch(m) ==
    Before(Before(After(DispatcherText, CaseOpen \o m.Name \o CaseClose), CaseOpen),
           DefaultLabel)

\* C1: the dispatcher holds one case branch per method, labelled with the
\* method's bare name, in declaration order and with pairwise distinct
\* labels, and one default branch, which replies ReplyMethodNotFound.
C1_DispatchComplete ==
    Done =>
        LET labels == Enclosed(DispatcherText, CaseOpen, CaseClose)
        IN  /\ labels = [i \in 1..Len(Methods) |-> Methods[i].Name]
            /\ \A i, j \in 1..Len(labels) : i # j => labels[i] # labels[j]
            /\ Occ(ret_string, CaseOpen) = Len(Methods)
            /\ Occ(ret_string, DefaultLabel) = 1
            /\ Occ(DispatcherText,
                   DefaultLabel \o <<"\t\treturn call.ReplyMethodNotFound(methodname)\n">>) = 1
            /\ Occ(ret_string, <<"\t\treturn call.ReplyMethodNotFound(methodname)\n">>) = 1

\* C1 witness: a unit for two methods, one with and one without input fields,
\* has been generated.
C1_Witness ==
    /\ Done
    /\ Len(Methods) = 2
    /\ Len(Methods[1].In.Fields) = 0
    /\ Len(Methods[2].In.Fields) > 0
    /\ Enclosed(DispatcherText, CaseOpen, CaseClose) = <<MethodName(1), MethodName(2)>>

SendOpen(m) ==
    <<"\treturn c_.Send(\"">> \o midl.Name \o <<".">> \o m.Name \o <<"\", ">>

DecodeCall == <<"\t\terr := call.GetParameters(">>

\* C2 as stated: a method without input fields sends a nil payload, and its
\* dispatcher branch calls the parameter decoder with nil before it invokes
\* the interface method.
C2_Original ==
    Done =>
        \A i \in 1..Len(Methods) :
            Len(Methods[i].In.Fields) = 0 =>
                LET call == FunctionText(ClientCallHeader(Methods[i]))
                    branch == Branch(Methods[i])
                IN  /\ Contains(call, SendOpen(Methods[i]) \o <<"nil", ", more_, oneway_)\n">>)
                    /\ Contains(branch, DecodeCall \o <<"nil">>)
                    /\ Index(branch, DecodeCall) < Index(branch, <<"\t\treturn s.">>)

\* C2 as amended: a method without input fields sends a nil payload and never
\* an input struct, and its dispatcher branch is the invocation of the
\* interface method with the call wrapper alone, without any call of the
\* parameter decoder.
C2_ZeroInputNilPayload ==
    Done =>
        \A i \in 1..Len(Methods) :
            Len(Methods[i].In.Fields) = 0 =>
                LET call == FunctionText(ClientCallHeader(Methods[i]))
                    branch == Branch(Methods[i])
                IN  /\ Occ(ret_string, ClientCallHeader(Methods[i])) = 1
                    /\ call = <<") error {\n">> \o SendOpen(Methods[i])
                              \o <<"nil", ", more_, oneway_)\n">>
                    /\ ~Contains(call, <<"\tvar in ">>)
                    /\ ~Contains(call, <<"struct{}">>)
                    /\ branch = <<"\t\treturn s.">> \o RemoveDots(midl.Name)
                                \o <<"Interface.">> \o Methods[i].Name
                                \o <<"(VarlinkCall{call}", ")\n", "\n">>
                    /\ ~Contains(branch, DecodeCall)

\* C2 witness: a unit with a method without input fields next to a method
\* with input fields, whose branch does decode, has been generated.
C2_Witness ==
    /\ Done
    /\ Len(Methods) = 2
    /\ Len(Methods[1].In.Fields) = 0
    /\ Len(Methods[2].In.Fields) > 0
    /\ Contains(Branch(Methods[2]), DecodeCall \o <<"&in">>)
    /\ ~Contains(Branch(Methods[1]), DecodeCall)

-----------------------------------------------------------------------------
\* Conversion points.

\* A text without its indentation.
NoTabs(text) ==
    SelectSeq(text, LAMBDA c : c # "\t")

\* At one conversion point of site, a value of type ty is either wrapped in
\* the rendering of ty (prefix, rendering, suffix) or passed on as it is
\* (direct).  Struct, Array and Map are wrapped, in the wire-tagged rendering
\* when wireSide and in the plain one otherwise; every other kind is passed on.
ConversionPoint(site, ty, wireSide, prefix, suffix, direct) ==
    LET text == NoTabs(site)
        expected == NoTabs(writeType(ty, wireSide, 0))
        other == NoTabs(writeType(ty, ~wireSide, 0))
    IN  IF ty.Kind \in {"Struct", "Array", "Map"}
        THEN /\ Contains(text, prefix \o expected \o suffix)
             /\ ~Contains(text, direct)
             /\ other # expected => ~Contains(text, prefix \o other \o suffix)
        ELSE /\ Contains(text, direct)
             /\ ~Contains(text, prefix \o expected \o suffix)
             /\ ~Contains(text, prefix \o other \o suffix)

\* The conversion points of a reply or error reply method for field f.
ReplyPoint(site, f) ==
    ConversionPoint(site, f.Type, TRUE,
        <<"\tout.">> \o Title(f.Name) \o <<" = ">>,
        <<"(">> \o sanitizeGoName(f.Name) \o <<")\n">>,
        <<"\tout.">> \o Title(f.Name) \o <<" = ">> \o sanitizeGoName(f.Name) \o <<"\n">>)

\* C3: at every conversion point a Struct, Array or Map field goes through an
\* explicit conversion to the translator's rendering of its type, wire-tagged
\* where a wire struct is filled (client call, reply, error reply) and plain
\* where one is read (reply reader, dispatcher); a field of any other kind is
\* assigned or passed directly.
C3_ExplicitConversions ==
    Done =>
        /\ \A i \in 1..Len(Methods) :
            LET m == Methods[i]
                call == FunctionText(ClientCallHeader(m))
                read == FunctionText(ReadReplyHeader(m))
                reply == FunctionText(ReplyHeader(m.Name))
                branch == Branch(m)
            IN  /\ \A j \in 1..Len(m.In.Fields) :
                    LET f == m.In.Fields[j]
                    IN  /\ ConversionPoint(call, f.Type, TRUE,
                                <<"\tin.">> \o Title(f.Name) \o <<" = ">>,
                                <<"(">> \o sanitizeGoName(f.Name) \o <<")\n">>,
                                <<"\tin.">> \o Title(f.Name) \o <<" = ">>
                                    \o sanitizeGoName(f.Name) \o <<"\n">>)
                        /\ ConversionPoint(branch, f.Type, FALSE,
                                <<", ">>,
                                <<"(in.">> \o Title(f.Name) \o <<")">>,
                                <<", in.">> \o Title(f.Name))
                /\ \A j \in 1..Len(m.Out.Fields) :
                    LET f == m.Out.Fields[j]
                    IN  /\ ConversionPoint(read, f.Type, FALSE,
                                <<"\t\t*">> \o sanitizeGoName(f.Name) \o <<" = ">>,
                                <<" (out.">> \o Title(f.Name) \o <<")\n">>,
                                <<"\t\t*">> \o sanitizeGoName(f.Name) \o <<" = out.">>
                                    \o Title(f.Name) \o <<"\n">>)
                        /\ ReplyPoint(reply, f)
        /\ \A i \in 1..Len(Errors) :
            \A j \in 1..Len(Errors[i].Type.Fields) :
                ReplyPoint(FunctionText(ReplyHeader(Errors[i].Name)), Errors[i].Type.Fields[j])

ArrayOfStruct == Nest("Array", StructOfGo)

\* C3 witness: a unit in which an Array-of-Struct field is an input of one
\* method, an output of another and a field of an error has been generated,
\* and the call site converts it to the wire-tagged rendering.
C3_Witness ==
    /\ Done
    /\ Len(Methods) = 2
    /\ Len(Errors) = 1
    /\ Methods[1].In.Fields = <<Field(go, ArrayOfStruct)>>
    /\ Methods[2].Out.Fields = <<Field(go, ArrayOfStruct)>>
    /\ Methods[2].In.Fields = <<Field(x, Scalar("String"))>>
    /\ Errors[1].Type.Fields = <<Field(go, ArrayOfStruct)>>
    /\ Contains(FunctionText(ClientCallHeader(Methods[1])),
                <<"\tin.", "G", "o", " = ", "[]", "struct {\n", "\t", "\t", "G", "o", " ",
                  "*", "int64", " ", BackQuote, "json:\"", "g", "o", OmitEmpty, "\"",
                  BackQuote, "\n", "\t", "}", "(", "g", "o", "_", ")\n">>)

-----------------------------------------------------------------------------
\* Local identifiers and wire names.

\* The identifier a field must be bound to: its name, followed by "_" when
\* the name is a reserved word.
LocalName(name) ==
    IF name \in goKeywords THEN name \o <<"_">> ELSE name

\* The names the wire tags of a text carry.
TagNames(text) ==
    LET tags == TagsOf(text)
    IN  { SelectSeq(tags[i], LAMBDA c : c # OmitEmpty) : i \in 1..Len(tags) }

RECURSIVE FieldNames(_)
\* The names of the fields of a type, at every nesting depth.
FieldNames(t) ==
    CASE t.Kind \in {"Array", "Map", "Maybe"} -> FieldNames(t.ElementType[1])
      [] t.Kind = "Struct" ->
            { t.Fields[i].Name : i \in 1..Len(t.Fields) }
            \cup UNION { FieldNames(t.Fields[i].Type) : i \in 1..Len(t.Fields) }
      [] OTHER -> {}

ModelFieldNames ==
    UNION ( { FieldNames(midl.Aliases[i].Type) : i \in 1..Len(midl.Aliases) }
            \cup { FieldNames(Methods[i].In) : i \in 1..Len(Methods) }
            \cup { FieldNames(Methods[i].Out) : i \in 1..Len(Methods) }
            \cup { FieldNames(Errors[i].Type) : i \in 1..Len(Errors) } )

\* The parameter called id is declared in the parameter list params (the text
\* after the opening parenthesis or after the parameters every function has).
DeclaresParam(params, id, mark) ==
    Contains(<<", ">> \o params, <<", ">> \o id \o <<mark>>)

\* A parameter list: a function's text up to the end of its signature.
Signature(text, close) ==
    LET s == Before(text, close)
    IN  IF Len(s) > 0 /\ s[1] = ", " THEN Tail(s) ELSE s

\* The value called id is the right-hand side of an assignment of site.
AssignsFrom(site, id) ==
    \/ Contains(site, <<"(">> \o id \o <<")\n">>)
    \/ Contains(site, <<" = ">> \o id \o <<"\n">>)

\* The out-parameter called id is checked against nil and then assigned through.
AssignsTo(site, id) ==
    \/ Contains(site, <<"\tif ">> \o id \o <<" != nil {\n", "\t\t*">> \o id \o <<" = ">>)
    \/ Contains(site, <<"\tif ">> \o id \o <<" != nil {\n", "\t\t*">> \o id \o <<" = out.">>)

\* Field f is an argument of the function text: declared under id in its
\* signature and the source of an assignment of its body.
SendsField(text, f, id) ==
    /\ DeclaresParam(Signature(text, <<") error {\n">>), id, " ")
    /\ AssignsFrom(text, id)
    /\ f.Name \in TagNames(text)

\* C4: a field whose name is a reserved word is bound to name_ at every
\* emission site (call parameters and assignments, reader out-parameters, nil
\* checks and assignments, interface signature, error reply, method reply,
\* stub) and never to the bare name; any other field is bound to its own
\* name; and every wire tag carries a field's original name.
C4_SanitizedEverywhere ==
    Done =>
        /\ TagNames(ret_string) \subseteq ModelFieldNames
        /\ \A i \in 1..Len(Methods) :
            LET m == Methods[i]
                call == FunctionText(ClientCallHeader(m))
                read == FunctionText(ReadReplyHeader(m))
                reply == FunctionText(ReplyHeader(m.Name))
                stub == FunctionText(StubHeader(m))
                line == InterfaceLine(m)
            IN  /\ \A j \in 1..Len(m.In.Fields) :
                    LET f == m.In.Fields[j]
                        id == LocalName(f.Name)
                    IN  /\ SendsField(call, f, id)
                        /\ DeclaresParam(Signature(stub, <<") error {\n">>), id, " ")
                        /\ DeclaresParam(Signature(line, <<") error\n">>), id, " ")
                        /\ f.Name \in TagNames(Branch(m))
                        /\ id # f.Name =>
                            /\ ~SendsField(call, f, f.Name)
                            /\ ~AssignsFrom(call, f.Name)
                            /\ \A sig \in { Signature(call, <<") error {\n">>),
                                            Signature(stub, <<") error {\n">>),
                                            Signature(line, <<") error\n">>) } :
                                   ~DeclaresParam(sig, f.Name, " ")
                            /\ id \notin TagNames(call) \cup TagNames(Branch(m))
                /\ \A j \in 1..Len(m.Out.Fields) :
                    LET f == m.Out.Fields[j]
                        id == LocalName(f.Name)
                    IN  /\ DeclaresParam(Signature(read, <<") (bool, error) {\n">>), id, " *")
                        /\ AssignsTo(read, id)
                        /\ f.Name \in TagNames(read)
                        /\ SendsField(reply, f, id)
                        /\ id # f.Name =>
                            /\ ~DeclaresParam(Signature(read, <<") (bool, error) {\n">>),
                                              f.Name, " *")
                            /\ ~Contains(read, <<"\tif ">> \o f.Name \o <<" != nil {\n">>)
                            /\ ~Contains(read, <<"\t\t*">> \o f.Name \o <<" = ">>)
                            /\ ~Contains(read, <<"\t\t*">> \o f.Name \o <<" = out.">>)
                            /\ ~DeclaresParam(Signature(reply, <<") error {\n">>), f.Name, " ")
                            /\ ~AssignsFrom(reply, f.Name)
                            /\ id \notin TagNames(read) \cup TagNames(reply)
        /\ \A i \in 1..Len(Errors) :
            LET reply == FunctionText(ReplyHeader(Errors[i].Name))
            IN  \A j \in 1..Len(Errors[i].Type.Fields) :
                    LET f == Errors[i].Type.Fields[j]
                        id == LocalName(f.Name)
                    IN  /\ SendsField(reply, f, id)
                        /\ id # f.Name =>
                            /\ ~DeclaresParam(Signature(reply, <<") error {\n">>), f.Name, " ")
                            /\ ~AssignsFrom(reply, f.Name)
                            /\ id \notin TagNames(reply)

\* C4 witness: a unit in which the reserved word "go" names an input field, an
\* output field and an error field has been generated; the call binds go_ and
\* tags the member "go".
C4_Witness ==
    /\ Done
    /\ Len(Methods) = 2
    /\ Len(Errors) = 1
    /\ Methods[1].In.Fields = <<Field(go, Scalar("String"))>>
    /\ Methods[2].Out.Fields = <<Field(go, Scalar("String"))>>
    /\ Errors[1].Type.Fields = <<Field(go, Scalar("String"))>>
    /\ Contains(ret_string, <<", ", "g", "o", "_", " ", "string", ") error {\n">>)
    /\ Contains(ret_string, <<"\tin.", "G", "o", " = ", "g", "o", "_", "\n">>)
    /\ TagNames(FunctionText(ClientCallHeader(Methods[1]))) = {go}

-----------------------------------------------------------------------------
\* Imports.

RECURSIVE HasObject(_)
\* An Object-kind type occurs in t.
HasObject(t) ==
    CASE t.Kind = "Object" -> TRUE
      [] t.Kind \in {"Array", "Map", "Maybe"} -> HasObject(t.ElementType[1])
      [] t.Kind = "Struct" -> \E i \in 1..Len(t.Fields) : HasObject(t.Fields[i].Type)
      [] OTHER -> FALSE

\* An Object-kind type occurs somewhere in the model.
ModelHasObject ==
    \/ \E i \in 1..Len(midl.Aliases) : HasObject(midl.Aliases[i].Type)
    \/ \E i \in 1..Len(Methods) : HasObject(Methods[i].In) \/ HasObject(Methods[i].Out)
    \/ \E i \in 1..Len(Errors) : HasObject(Errors[i].Type)

\* The import clause of the unit: what stands between the package clause and
\* the type declarations.
ImportClause ==
    Between(ret_string, <<"package ">> \o RemoveDots(midl.Name) \o <<"\n\n">>,
            <<"\n\n", "// Type declarations\n">>)

\* C5 as stated: encoding/json is imported if and only if the model holds an
\* Object-kind type; without one, whatever the names and the description are,
\* the transport package is the only import.
C5_ImportIffObject ==
    Done =>
        /\ ModelHasObject => ImportClause = ImportBoth
        /\ ~ModelHasObject => ImportClause = ImportVarlink

-----------------------------------------------------------------------------
\* Error replies.

ErrorReplyCall == <<"\treturn c.ReplyError(\"">>

\* C8: the Reply<E> method of every declared error E calls ReplyError once,
\* with the identifier "<interface name>.<E>": with nil when E has no field,
\* and otherwise with a reference to a wire-tagged struct of E's type, filled
\* from one parameter per field.
C8_ErrorReply ==
    Done =>
        \A i \in 1..Len(Errors) :
            LET e == Errors[i]
                fields == e.Type.Fields
                reply == FunctionText(ReplyHeader(e.Name))
                params == Signature(reply, <<") error {\n">>)
            IN  /\ Occ(ret_string, ReplyHeader(e.Name)) = 1
                /\ Occ(reply, ErrorReplyCall) = 1
                /\ Occ(reply, <<"\tout.">>) = Len(fields)
                /\ IF Len(fields) = 0
                   THEN /\ reply = <<") error {\n">> \o ErrorReplyCall \o midl.Name
                                   \o <<".">> \o e.Name \o <<"\", ", "nil", ")\n">>
                        /\ ~Contains(reply, <<"&out">>)
                   ELSE /\ Contains(reply, ErrorReplyCall \o midl.Name \o <<".">> \o e.Name
                                           \o <<"\", ", "&out", ")\n">>)
                        /\ Contains(NoTabs(reply),
                                    <<"\tvar out ">> \o NoTabs(writeType(e.Type, TRUE, 0))
                                    \o <<"\n">>)
                        /\ TagsOf(Between(reply, <<"\tvar out ">>, <<"\tout.">>))
                               = ExpectedTags(e.Type)
                        /\ \A j \in 1..Len(fields) :
                               /\ DeclaresParam(params, LocalName(fields[j].Name), " ")
                               /\ Occ(reply, <<"\tout.">> \o Title(fields[j].Name) \o <<" = ">>)
                                      >= 1
                               /\ AssignsFrom(reply, LocalName(fields[j].Name))

\* C8 witness: a unit with an error of two fields has been generated, and its
\* reply method passes a reference to the filled struct.
C8_Witness ==
    /\ Done
    /\ Len(Errors) >= 1
    /\ Len(Errors[1].Type.Fields) = 2
    /\ Contains(FunctionText(ReplyHeader(Errors[1].Name)),
                ErrorReplyCall \o midl.Name \o <<".", "E", "r", "\", ", "&out", ")\n">>)

-----------------------------------------------------------------------------
\* Identity accessors.

\* The raw string literal VarlinkGetName returns.
NameLiteral ==
    Between(ret_string,
            <<"func (s *VarlinkInterface) VarlinkGetName() string {\n", "\treturn ", BackQuote>>,
            <<BackQuote, "\n", "}\n\n">>)

\* The raw string literal VarlinkGetDescription returns.
DescriptionLiteral ==
    Between(ret_string,
            <<"func (s *VarlinkInterface) VarlinkGetDescription() string {\n",
              "\treturn ", BackQuote>>,
            <<BackQuote, "\n}\n\n">>)

\* C9 as stated: the accessors return the interface name and the model's
\* description text, each without any character added, removed or altered.
C9_Original ==
    Done =>
        /\ NameLiteral = midl.Name
        /\ DescriptionLiteral = midl.Description

\* C9 as amended: VarlinkGetName returns the interface name unchanged;
\* VarlinkGetDescription returns the model's description text followed by one
\* added newline.
C9_DescriptionPlusNewline ==
    Done =>
        /\ NameLiteral = midl.Name
        /\ DescriptionLiteral = midl.Description \o <<"\n">>

\* C9 witness: a unit has been generated from a description that ended in two
\* newlines; the literal is neither that text nor the model's description.
C9_Witness ==
    /\ Done
    /\ Len(file) >= 2
    /\ file[Len(file)] = "\n"
    /\ file[Len(file) - 1] = "\n"
    /\ DescriptionLiteral # file
    /\ DescriptionLiteral # midl.Description
    /\ Len(DescriptionLiteral) = Len(file) - 1

-----------------------------------------------------------------------------
\* Scopes.

DistinctNames(fields) ==
    \A i, j \in 1..Len(fields) : i # j => fields[i].Name # fields[j].Name

\* No parameter of the list is called one of the names.
NoParamNamed(params, names, mark) ==
    \A id \in names : ~DeclaresParam(params, id, mark)

c_ == <<"c","_">>

more_ == <<"m","o","r","e","_">>

oneway_ == <<"o","n","e","w","a","y","_">>

continues_ == <<"c","o","n","t","i","n","u","e","s","_">>

\* C10 as stated: in a unit generated from a model whose field names are
\* pairwise distinct within each struct, no field parameter of a function
\* bears a name the generator binds in the same function, and no two fields
\* of one struct share a member name.
C10_ScopesDistinct ==
    (/\ Done
     /\ \A i \in 1..Len(Methods) :
            DistinctNames(Methods[i].In.Fields) /\ DistinctNames(Methods[i].Out.Fields)
     /\ \A i \in 1..Len(Errors) : DistinctNames(Errors[i].Type.Fields)) =>
        /\ \A i \in 1..Len(Methods) :
            LET m == Methods[i]
                call == FunctionText(ClientCallHeader(m))
                read == FunctionText(ReadReplyHeader(m))
                reply == FunctionText(ReplyHeader(m.Name))
                stub == FunctionText(StubHeader(m))
            IN  /\ NoParamNamed(Signature(call, <<") error {\n">>),
                                {c_, more_, oneway_}, " ")
                /\ Contains(call, <<"\tvar in ">>) =>
                       NoParamNamed(Signature(call, <<") error {\n">>), {in}, " ")
                /\ NoParamNamed(Signature(read, <<") (bool, error) {\n">>),
                                {<<"c">>, <<"e","r","r">>, continues_}, " *")
                /\ Contains(read, <<"\tvar out ">>) =>
                       NoParamNamed(Signature(read, <<") (bool, error) {\n">>),
                                    {<<"o","u","t">>}, " *")
                /\ NoParamNamed(Signature(reply, <<") error {\n">>), {<<"c">>}, " ")
                /\ Contains(reply, <<"\tvar out ">>) =>
                       NoParamNamed(Signature(reply, <<") error {\n">>), {<<"o","u","t">>}, " ")
                /\ NoParamNamed(Signature(stub, <<") error {\n">>), {<<"c">>}, " ")
                /\ NoParamNamed(Signature(InterfaceLine(m), <<") error\n">>), {<<"c">>}, " ")
                /\ \A f \in { m.In.Fields[j] : j \in 1..Len(m.In.Fields) } :
                       Occ(call, <<"\tin.">> \o Title(f.Name) \o <<" = ">>) = 1
                /\ \A f \in { m.Out.Fields[j] : j \in 1..Len(m.Out.Fields) } :
                       Occ(reply, <<"\tout.">> \o Title(f.Name) \o <<" = ">>) = 1
        /\ \A i \in 1..Len(Errors) :
            LET reply == FunctionText(ReplyHeader(Errors[i].Name))
            IN  /\ NoParamNamed(Signature(reply, <<") error {\n">>), {<<"c">>}, " ")
                /\ Contains(reply, <<"\tvar out ">>) =>
                       NoParamNamed(Signature(reply, <<") error {\n">>), {<<"o","u","t">>}, " ")
                /\ \A f \in { Errors[i].Type.Fields[j] : j \in 1..Len(Errors[i].Type.Fields) } :
                       Occ(reply, <<"\tout.">> \o Title(f.Name) \o <<" = ">>) = 1

====
